---------------------------- MODULE Spec2Model ----------------------------
(***************************************************************************)
(* A model of update_index.py: the generator of index.html for a directory *)
(* of standalone HTML tools.  Text is modelled as a sequence of            *)
(* one-character strings, so that the regular expressions, str.replace,    *)
(* str.strip, str.title and html.escape of the source are computed         *)
(* character by character.                                                 *)
(***************************************************************************)
EXTENDS Integers, Sequences, FiniteSets, TLC

VARIABLES
    \* the extractor's input and output (extract_title, extract_description)
    content, tag, extracted,
    \* scan_tools: the directory, the order glob enumerates it in, the result
    scanDir, scanOrder, scanResult,
    \* _render_tools_html: the list of tools and the fragment
    renderTools, fragment,
    \* generate_index_html: the template file and the document
    genParts, genTemplate, genTools, document,
    \* main: the directory, the template file, the index file, and what the
    \* last run was given and did
    files, template, index, args, outcome, status, stdout, stderr,
    prevIndex, generated

extractVars == <<content, tag, extracted>>
scanVars    == <<scanDir, scanOrder, scanResult>>
renderVars  == <<renderTools, fragment>>
genVars     == <<genParts, genTemplate, genTools, document>>
mainVars    == <<files, template, index, args, outcome, status, stdout, stderr,
                 prevIndex, generated>>
vars == <<extractVars, scanVars, renderVars, genVars, mainVars>>

-----------------------------------------------------------------------------
(* Bounds of the model *)

\* the longest content attribute value of a generated meta tag
MaxValueLen == 2
\* the number of tool files a directory holds at most
MaxFiles == 2
\* the number of tools handed to _render_tools_html at most
MaxTools == 2
\* the number of placeholder tokens in a template at most
MaxPlaceholders == 2

-----------------------------------------------------------------------------
(* Python's str | None *)

None == [some |-> FALSE, val |-> <<>>]
Some(v) == [some |-> TRUE, val |-> v]

-----------------------------------------------------------------------------
(* Characters and strings *)

\* str.lower on the upper case letters
ToLower ==
    ("A" :> "a") @@ ("B" :> "b") @@ ("C" :> "c") @@ ("D" :> "d") @@
    ("E" :> "e") @@ ("F" :> "f") @@ ("G" :> "g") @@ ("H" :> "h") @@
    ("I" :> "i") @@ ("J" :> "j") @@ ("K" :> "k") @@ ("L" :> "l") @@
    ("M" :> "m") @@ ("N" :> "n") @@ ("O" :> "o") @@ ("P" :> "p") @@
    ("Q" :> "q") @@ ("R" :> "r") @@ ("S" :> "s") @@ ("T" :> "t") @@
    ("U" :> "u") @@ ("V" :> "v") @@ ("W" :> "w") @@ ("X" :> "x") @@
    ("Y" :> "y") @@ ("Z" :> "z")

\* str.upper on the lower case letters
ToUpper ==
    ("a" :> "A") @@ ("b" :> "B") @@ ("c" :> "C") @@ ("d" :> "D") @@
    ("e" :> "E") @@ ("f" :> "F") @@ ("g" :> "G") @@ ("h" :> "H") @@
    ("i" :> "I") @@ ("j" :> "J") @@ ("k" :> "K") @@ ("l" :> "L") @@
    ("m" :> "M") @@ ("n" :> "N") @@ ("o" :> "O") @@ ("p" :> "P") @@
    ("q" :> "Q") @@ ("r" :> "R") @@ ("s" :> "S") @@ ("t" :> "T") @@
    ("u" :> "U") @@ ("v" :> "V") @@ ("w" :> "W") @@ ("x" :> "X") @@
    ("y" :> "Y") @@ ("z" :> "Z")

UpperLetters == DOMAIN ToLower
LowerLetters == DOMAIN ToUpper

IsAlpha(c) == c \in UpperLetters \/ c \in LowerLetters

\* str.lower and str.upper on one character
Lower(c) == IF c \in UpperLetters THEN ToLower[c] ELSE c
Upper(c) == IF c \in LowerLetters THEN ToUpper[c] ELSE c

LowerStr(s) == [i \in 1..Len(s) |-> Lower(s[i])]

\* the whitespace of str.strip and of \s
IsSpace(c) == c \in {" ", "\n", "\t"}

Quotes == {"\"", "'"}

Min(S) == CHOOSE x \in S : \A y \in S : x <= y
Max(S) == CHOOSE x \in S : \A y \in S : y <= x

\* lit occurs in s at position i
MatchAt(s, i, lit) ==
    /\ i >= 1
    /\ i + Len(lit) - 1 <= Len(s)
    /\ \A k \in 1..Len(lit) : s[i + k - 1] = lit[k]

\* the same under re.IGNORECASE
MatchAtI(s, i, lit) ==
    /\ i >= 1
    /\ i + Len(lit) - 1 <= Len(s)
    /\ \A k \in 1..Len(lit) : Lower(s[i + k - 1]) = Lower(lit[k])

\* str.find from position from (1-based); 0 when there is none
Find(s, sub, from) ==
    LET C == {i \in from..(Len(s) - Len(sub) + 1) : MatchAt(s, i, sub)}
    IN  IF C = {} THEN 0 ELSE Min(C)

\* str.replace(old, new): every non-overlapping occurrence, left to right
RECURSIVE ReplaceFrom(_, _, _, _)
ReplaceFrom(s, old, new, from) ==
    LET i == Find(s, old, from)
    IN  IF i = 0
        THEN SubSeq(s, from, Len(s))
        ELSE SubSeq(s, from, i - 1) \o new \o ReplaceFrom(s, old, new, i + Len(old))

Replace(s, old, new) == ReplaceFrom(s, old, new, 1)

\* str.strip()
Strip(s) ==
    LET K == {i \in 1..Len(s) : ~IsSpace(s[i])}
    IN  IF K = {} THEN <<>> ELSE SubSeq(s, Min(K), Max(K))

-----------------------------------------------------------------------------
(* The Metadata Extractor *)

TitleOpen  == <<"<","t","i","t","l","e",">">>
TitleClose == <<"<","/","t","i","t","l","e",">">>

\* r"<title>(.*?)</title>", re.DOTALL | re.IGNORECASE: the leftmost opening
\* tag that a closing tag follows, and the nearest closing tag after it
extract_title(c) ==
    LET Closes(i) == {j \in (i + Len(TitleOpen))..Len(c) : MatchAtI(c, j, TitleClose)}
        Starts == {i \in 1..Len(c) : MatchAtI(c, i, TitleOpen) /\ Closes(i) # {}}
    IN  IF Starts = {}
        THEN None
        ELSE LET i == Min(Starts)
             IN  Some(Strip(SubSeq(c, i + Len(TitleOpen), Min(Closes(i)) - 1)))

MetaOpen    == <<"<","m","e","t","a">>
NameEq      == <<"n","a","m","e","=">>
Description == <<"d","e","s","c","r","i","p","t","i","o","n">>
ContentEq   == <<"c","o","n","t","e","n","t","=">>

\* \s+ at position p: the position after the run of whitespace, 0 when there
\* is no whitespace at p (what follows \s+ in the pattern is never whitespace,
\* so the longest run is the only one that can match)
SkipSpaces(s, p) ==
    IF p > Len(s) \/ ~IsSpace(s[p])
    THEN 0
    ELSE LET N == {q \in p..Len(s) : ~IsSpace(s[q])}
         IN  IF N = {} THEN Len(s) + 1 ELSE Min(N)

IsQuoteAt(s, p) == p >= 1 /\ p <= Len(s) /\ s[p] \in Quotes

\* the lazy group (.*?) followed by ["\']: it ends at the first quote
\* character of either kind, and "." matches no newline
LazyGroupEnd(s, g) ==
    LET Q == {j \in g..Len(s) : s[j] \in Quotes}
    IN  IF Q = {} THEN 0
        ELSE IF \E k \in g..(Min(Q) - 1) : s[k] = "\n" THEN 0
        ELSE Min(Q)

\* r'<meta\s+name=["\']description["\']\s+content=["\'](.*?)["\']' at
\* position i, re.IGNORECASE: the captured group, or None
DescriptionAt(s, i) ==
    IF ~MatchAtI(s, i, MetaOpen) THEN None
    ELSE LET p1 == SkipSpaces(s, i + Len(MetaOpen))
    IN  IF p1 = 0 \/ ~MatchAtI(s, p1, NameEq) THEN None
    ELSE LET q1 == p1 + Len(NameEq)
    IN  IF ~IsQuoteAt(s, q1) \/ ~MatchAtI(s, q1 + 1, Description) THEN None
    ELSE LET q2 == q1 + 1 + Len(Description)
    IN  IF ~IsQuoteAt(s, q2) THEN None
    ELSE LET p2 == SkipSpaces(s, q2 + 1)
    IN  IF p2 = 0 \/ ~MatchAtI(s, p2, ContentEq) THEN None
    ELSE LET q3 == p2 + Len(ContentEq)
    IN  IF ~IsQuoteAt(s, q3) THEN None
    ELSE LET e == LazyGroupEnd(s, q3 + 1)
    IN  IF e = 0 THEN None ELSE Some(SubSeq(s, q3 + 1, e - 1))

\* re.search: the leftmost match; match.group(1).strip()
extract_description(c) ==
    LET Starts == {i \in 1..Len(c) : DescriptionAt(c, i).some}
    IN  IF Starts = {}
        THEN None
        ELSE Some(Strip(DescriptionAt(c, Min(Starts)).val))

-----------------------------------------------------------------------------
(* The Directory Scanner *)

\* ToolInfo(filename, title, description)
ToolInfo(f, t, d) == [filename |-> f, title |-> t, description |-> d]

DotHtml      == <<".","h","t","m","l">>
IndexName    == <<"i","n","d","e","x",".","h","t","m","l">>
TemplateName == <<"i","n","d","e","x",".","t","e","m","p","l","a","t","e",".","h","t","m","l">>

\* exclude = ["index.html", "index.template.html"]
DefaultExclude == <<IndexName, TemplateName>>

\* the code points of the characters of a file name
CodePoint ==
    (" " :> 32) @@ ("-" :> 45) @@ ("." :> 46) @@ ("A" :> 65) @@
    ("B" :> 66) @@ ("C" :> 67) @@ ("D" :> 68) @@ ("E" :> 69) @@
    ("F" :> 70) @@ ("G" :> 71) @@ ("H" :> 72) @@ ("I" :> 73) @@
    ("J" :> 74) @@ ("K" :> 75) @@ ("L" :> 76) @@ ("M" :> 77) @@
    ("N" :> 78) @@ ("O" :> 79) @@ ("P" :> 80) @@ ("Q" :> 81) @@
    ("R" :> 82) @@ ("S" :> 83) @@ ("T" :> 84) @@ ("U" :> 85) @@
    ("V" :> 86) @@ ("W" :> 87) @@ ("X" :> 88) @@ ("Y" :> 89) @@
    ("Z" :> 90) @@ ("_" :> 95) @@ ("a" :> 97) @@ ("b" :> 98) @@
    ("c" :> 99) @@ ("d" :> 100) @@ ("e" :> 101) @@ ("f" :> 102) @@
    ("g" :> 103) @@ ("h" :> 104) @@ ("i" :> 105) @@ ("j" :> 106) @@
    ("k" :> 107) @@ ("l" :> 108) @@ ("m" :> 109) @@ ("n" :> 110) @@
    ("o" :> 111) @@ ("p" :> 112) @@ ("q" :> 113) @@ ("r" :> 114) @@
    ("s" :> 115) @@ ("t" :> 116) @@ ("u" :> 117) @@ ("v" :> 118) @@
    ("w" :> 119) @@ ("x" :> 120) @@ ("y" :> 121) @@ ("z" :> 122)

Ord(c) == CodePoint[c]

\* a < b on Python strings
StrLess(a, b) ==
    LET D == {i \in 1..Len(a) : i > Len(b) \/ a[i] # b[i]}
    IN  IF D = {}
        THEN Len(a) < Len(b)
        ELSE Min(D) <= Len(b) /\ Ord(a[Min(D)]) < Ord(b[Min(D)])

\* key=lambda t: t.filename.lower()
SortKey(t) == LowerStr(t.filename)

\* sorted(tools, key=...): a stable sort, computed by inserting each tool,
\* in list order, behind the tools whose key is not greater than its own
RECURSIVE SortedPrefix(_, _)
SortedPrefix(tools, n) ==
    IF n = 0
    THEN <<>>
    ELSE LET done == SortedPrefix(tools, n - 1)
             t == tools[n]
             k == Cardinality({i \in 1..Len(done) : ~StrLess(SortKey(t), SortKey(done[i]))})
         IN  SubSeq(done, 1, k) \o <<t>> \o SubSeq(done, k + 1, Len(done))

Sorted(tools) == SortedPrefix(tools, Len(tools))

\* Path.stem: the name without its last suffix
Stem(name) ==
    LET Dots == {i \in 2..(Len(name) - 1) : name[i] = "."}
    IN  IF Dots = {} THEN name ELSE SubSeq(name, 1, Max(Dots) - 1)

\* str.title(): a letter is upper case after a non-letter, lower case after a letter
Title(s) ==
    [i \in 1..Len(s) |-> IF i > 1 /\ IsAlpha(s[i - 1]) THEN Lower(s[i]) ELSE Upper(s[i])]

\* filepath.stem.replace("-", " ").replace("_", " ").title()
DerivedTitle(name) == Title(Replace(Replace(Stem(name), <<"-">>, <<" ">>), <<"_">>, <<" ">>))

\* extract_title(content) or <derived>: an empty title is falsy
TitleOf(name, text) ==
    LET t == extract_title(text)
    IN  IF t.some /\ t.val # <<>> THEN t.val ELSE DerivedTitle(name)

\* the names directory.glob("*.html") yields, as a set
GlobHtml(dir) ==
    {n \in DOMAIN dir : Len(n) >= Len(DotHtml)
                        /\ MatchAt(n, Len(n) - Len(DotHtml) + 1, DotHtml)}

\* the orders the platform may enumerate a set of names in
Orders(S) ==
    {o \in [1..Cardinality(S) -> S] : \A i, j \in 1..Cardinality(S) : o[i] = o[j] => i = j}

Excluded(name, exclude) ==
    LowerStr(name) \in {LowerStr(exclude[e]) : e \in 1..Len(exclude)}

\* what scan_tools holds before the first file: nothing raised, no tool
ScanStart == [status |-> "ok", tools |-> <<>>, warnings |-> <<>>, filename |-> <<>>]

\* a variant of ScanFile in which a file without a description is passed over
ScanFile_SkipsMissing(dir, exclude, name, acc) ==
    IF Excluded(name, exclude)
    THEN acc
    ELSE IF ~dir[name].readable
    THEN [acc EXCEPT !.warnings = Append(@, name)]
    ELSE LET d == extract_description(dir[name].text)
         IN  IF ~d.some
             THEN acc
             ELSE [acc EXCEPT !.tools = Append(@, ToolInfo(name, TitleOf(name, dir[name].text), d.val))]

\* a variant of ScanFile in which the OSError of a read is not caught
ScanFile_ReadErrorEscapes(dir, exclude, name, acc) ==
    IF Excluded(name, exclude)
    THEN acc
    ELSE IF ~dir[name].readable
    THEN [status |-> "OSError", tools |-> <<>>, warnings |-> acc.warnings, filename |-> name]
    ELSE LET d == extract_description(dir[name].text)
         IN  IF ~d.some
             THEN [status |-> "MissingDescriptionError", tools |-> <<>>,
                   warnings |-> acc.warnings, filename |-> name]
             ELSE [acc EXCEPT !.tools = Append(@, ToolInfo(name, TitleOf(name, dir[name].text), d.val))]

\* one iteration of the loop of scan_tools, for the enumerated file name:
\* an excluded file is passed over, an unreadable one warned about, one
\* without a description raises, any other is appended
ScanFile(dir, exclude, name, acc) ==
    IF Excluded(name, exclude)
    THEN acc
    ELSE IF ~dir[name].readable
    THEN [acc EXCEPT !.warnings = Append(@, name)]
    ELSE LET d == extract_description(dir[name].text)
         IN  IF ~d.some
             THEN [status |-> "MissingDescriptionError", tools |-> <<>>,
                   warnings |-> acc.warnings, filename |-> name]
             ELSE [acc EXCEPT !.tools = Append(@, ToolInfo(name, TitleOf(name, dir[name].text), d.val))]

\* the loop of scan_tools from the k-th enumerated file on; an exception ends it
RECURSIVE ScanFrom(_, _, _, _, _)
ScanFrom(dir, exclude, order, k, acc) ==
    IF k > Len(order) \/ acc.status # "ok"
    THEN acc
    ELSE ScanFrom(dir, exclude, order, k + 1, ScanFile(dir, exclude, order[k], acc))

\* scan_tools(directory, exclude), the directory enumerated in the given order
scan_tools(dir, exclude, order) ==
    LET r == ScanFrom(dir, IF exclude.some THEN exclude.val ELSE DefaultExclude,
                      order, 1, ScanStart)
    IN  IF r.status = "ok" THEN [r EXCEPT !.tools = Sorted(r.tools)] ELSE r

-----------------------------------------------------------------------------
(* The Renderer *)

Amp  == <<"&","a","m","p",";">>
Lt   == <<"&","l","t",";">>
Gt   == <<"&","g","t",";">>
Quot == <<"&","q","u","o","t",";">>
Apos == <<"&","#","x","2","7",";">>

\* a variant of esc that leaves the quote characters: html.escape(s, quote=False)
esc_NoQuotes(s) ==
    Replace(Replace(Replace(s, <<"&">>, Amp), <<"<">>, Lt), <<">">>, Gt)

\* html.escape(s), quote=True
esc(s) ==
    Replace(Replace(Replace(Replace(Replace(s, <<"&">>, Amp), <<"<">>, Lt), <<">">>, Gt),
                    <<"\"">>, Quot), <<"'">>, Apos)

ItemOpen  == <<" "," "," "," "," "," "," "," ","<","l","i"," ","c","l","a","s","s","=","\"","t","o","o","l","-","i","t","e","m","\"",">","\n"," "," "," "," "," "," "," "," "," "," "," "," ","<","a"," ","h","r","e","f","=","\"">>
LinkOpen  == <<"\""," ","c","l","a","s","s","=","\"","t","o","o","l","-","l","i","n","k","\"",">","\n"," "," "," "," "," "," "," "," "," "," "," "," "," "," "," "," ","<","s","p","a","n"," ","c","l","a","s","s","=","\"","t","o","o","l","-","t","i","t","l","e","\"",">">>
LinkClose == <<"<","/","s","p","a","n",">","\n"," "," "," "," "," "," "," "," "," "," "," "," ","<","/","a",">">>
ParaOpen  == <<"<","p",">">>
ParaClose == <<"<","/","p",">">>
ItemClose == <<"\n"," "," "," "," "," "," "," "," ","<","/","l","i",">">>

\* one element of tool_items
ToolItem(tool) ==
    ItemOpen \o esc(tool.filename) \o LinkOpen \o esc(tool.title) \o LinkClose
        \o ParaOpen \o esc(tool.description) \o ParaClose \o ItemClose

\* "\n".join(items)
RECURSIVE JoinLines(_)
JoinLines(items) ==
    IF items = <<>> THEN <<>>
    ELSE IF Len(items) = 1 THEN items[1]
    ELSE items[1] \o <<"\n">> \o JoinLines(Tail(items))

_render_tools_html(tools) == JoinLines([i \in 1..Len(tools) |-> ToolItem(tools[i])])

Placeholder == <<"<","!","-","-"," ","T","O","O","L","S","_","L","I","S","T"," ","-","-",">">>

\* str.replace(old, new, 1): the first occurrence only
ReplaceFirst(s, old, new) ==
    LET i == Find(s, old, 1)
    IN  IF i = 0 THEN s
        ELSE SubSeq(s, 1, i - 1) \o new \o SubSeq(s, i + Len(old), Len(s))

\* a variant of generate_index_html that replaces the first placeholder only
generate_index_html_FirstOnly(tools, tpl) ==
    IF ~tpl.some
    THEN [ok |-> FALSE, text |-> <<>>]
    ELSE [ok |-> TRUE, text |-> ReplaceFirst(tpl.val, Placeholder, _render_tools_html(tools))]

\* generate_index_html(tools, template_path); the template file is None when
\* it does not exist
generate_index_html(tools, tpl) ==
    IF ~tpl.some
    THEN [ok |-> FALSE, text |-> <<>>]
    ELSE [ok |-> TRUE, text |-> Replace(tpl.val, Placeholder, _render_tools_html(tools))]

-----------------------------------------------------------------------------
(* Sequences over a set, up to a length *)

SeqsUpTo(S, n) == UNION {[1..k -> S] : k \in 0..n}

-----------------------------------------------------------------------------
(* The extractor applied to generated documents *)

ValueChars == {"a", " ", "'", "\""}

TagShapes == {"plain", "upper", "reversed", "none"}

\* <meta name=Q description Q content=Q value Q>, the attribute names in
\* lower or in upper case
MetaTag(q, v, upper) ==
    LET t == MetaOpen \o <<" ">> \o NameEq \o <<q>> \o Description \o <<q, " ">>
                 \o ContentEq
    IN  (IF upper THEN [i \in 1..Len(t) |-> Upper(t[i])] ELSE t) \o <<q>> \o v \o <<q, ">">>

\* the unsupported attribute order: content, then name
ReversedTag(q, v) ==
    MetaOpen \o <<" ">> \o ContentEq \o <<q>> \o v \o <<q, " ">> \o NameEq
        \o <<q>> \o Description \o <<q, ">">>

TitleText == <<" ", "T", "\n", "t", " ">>

\* the document a tag description stands for
DocumentOf(t) ==
    (IF t.titled THEN TitleOpen \o TitleText \o TitleClose \o <<"\n">> ELSE <<>>)
    \o (CASE t.shape = "plain"    -> MetaTag(t.quote, t.value, FALSE)
          [] t.shape = "upper"    -> MetaTag(t.quote, t.value, TRUE)
          [] t.shape = "reversed" -> ReversedTag(t.quote, t.value)
          [] OTHER                -> <<"<", "p", ">">>)
    \o (IF t.second THEN <<"\n">> \o MetaTag(t.quote, <<"z">>, FALSE) ELSE <<>>)

Tags ==
    [shape : TagShapes, quote : Quotes, value : SeqsUpTo(ValueChars, MaxValueLen),
     titled : BOOLEAN, second : BOOLEAN]

NotExtracted == [titleDone |-> FALSE, title |-> None, descDone |-> FALSE, description |-> None]

ExtractIdle ==
    /\ content = <<>>
    /\ tag = [shape |-> "none", quote |-> "'", value |-> <<>>, titled |-> FALSE,
              second |-> FALSE]
    /\ extracted = NotExtracted

ExtractTitle ==
    /\ ~extracted.titleDone
    /\ extracted' = [extracted EXCEPT !.titleDone = TRUE, !.title = extract_title(content)]
    /\ UNCHANGED <<content, tag, scanVars, renderVars, genVars, mainVars>>

ExtractDescription ==
    /\ ~extracted.descDone
    /\ extracted' = [extracted EXCEPT !.descDone = TRUE,
                                      !.description = extract_description(content)]
    /\ UNCHANGED <<content, tag, scanVars, renderVars, genVars, mainVars>>

-----------------------------------------------------------------------------
(* scan_tools applied to generated directories *)

Doc(titled, shape, value) ==
    DocumentOf([shape |-> shape, quote |-> "\"", value |-> value, titled |-> titled,
                second |-> FALSE])

\* a title and a description; a description only; a title only; a tag with
\* an empty content attribute
FullDoc      == Doc(TRUE, "plain", <<"D">>)
NoTitleDoc   == Doc(FALSE, "plain", <<"E">>)
NoDescDoc    == Doc(TRUE, "none", <<>>)
EmptyDescDoc == Doc(FALSE, "plain", <<>>)

Unreadable == [readable |-> FALSE, text |-> <<>>]
Readable(text) == [readable |-> TRUE, text |-> text]

FileStates == {Unreadable} \cup {Readable(d) : d \in {FullDoc, NoTitleDoc, NoDescDoc, EmptyDescDoc}}

AHtml  == <<"a">> \o DotHtml
UpperAHtml == <<"A">> \o DotHtml
BCHtml == <<"b", "_", "c">> \o DotHtml
UpperIndexHtml == <<"I","n","d","e","x">> \o DotHtml
ATxt   == <<"a", ".", "t", "x", "t">>

ScanNames == {AHtml, UpperAHtml, BCHtml, UpperIndexHtml, ATxt}

\* the directories of at most MaxFiles files
Directories(names, states) ==
    UNION {[S -> states] : S \in {T \in SUBSET names : Cardinality(T) <= MaxFiles}}

NotScanned == [status |-> "idle", tools |-> <<>>, warnings |-> <<>>, filename |-> <<>>]

ScanIdle ==
    /\ scanDir = <<>>
    /\ scanOrder = <<>>
    /\ scanResult = NotScanned

\* scan_tools(directory), glob enumerating the directory in some order
Scan ==
    /\ scanResult.status = "idle"
    /\ \E o \in Orders(GlobHtml(scanDir)) :
          /\ scanOrder' = o
          /\ scanResult' = scan_tools(scanDir, None, o)
    /\ UNCHANGED <<scanDir, extractVars, renderVars, genVars, mainVars>>

-----------------------------------------------------------------------------
(* _render_tools_html applied to generated lists of tools *)

\* plain text; markup with an entity in it; both quote characters
FieldValues == {<<"a">>, <<"<", "s", ">", "&", "l", "t", ";">>, <<"\"", "'", "b">>}

ToolInfos == [filename : FieldValues, title : FieldValues, description : FieldValues]

RenderIdle ==
    /\ renderTools = <<>>
    /\ fragment = None

Render ==
    /\ ~fragment.some
    /\ fragment' = Some(_render_tools_html(renderTools))
    /\ UNCHANGED <<renderTools, extractVars, scanVars, genVars, mainVars>>

-----------------------------------------------------------------------------
(* generate_index_html applied to generated templates *)

\* the text between the placeholder tokens of a template
Fillers == {<<>>, <<"x">>, <<"<", "!", "-", "-">>}

\* parts[1] <!-- TOOLS_LIST --> parts[2] ... <!-- TOOLS_LIST --> parts[n + 1]
RECURSIVE Interleave(_, _)
Interleave(parts, sep) ==
    IF Len(parts) = 1 THEN parts[1]
    ELSE parts[1] \o sep \o Interleave(Tail(parts), sep)

TemplateParts == UNION {[1..(n + 1) -> Fillers] : n \in 0..MaxPlaceholders}

OneTool == ToolInfo(AHtml, <<"A">>, <<"d">>)

NotGenerated == [status |-> "idle", text |-> <<>>]

GenerateIdle ==
    /\ genParts = <<>>
    /\ genTemplate = None
    /\ genTools = <<>>
    /\ document = NotGenerated

Generate ==
    /\ document.status = "idle"
    /\ \E g \in {generate_index_html(genTools, genTemplate)} :
          document' = IF g.ok THEN [status |-> "ok", text |-> g.text]
                      ELSE [status |-> "FileNotFoundError", text |-> <<>>]
    /\ UNCHANGED <<genParts, genTemplate, genTools, extractVars, scanVars, renderVars, mainVars>>

-----------------------------------------------------------------------------
(* The CLI Driver *)

\* what glob sees: the tool files, index.template.html and index.html
Directory(tools_dir, tpl, idx) ==
    [n \in DOMAIN tools_dir \cup (IF tpl.some THEN {TemplateName} ELSE {})
                            \cup (IF idx.some THEN {IndexName} ELSE {}) |->
        IF n = IndexName THEN Readable(idx.val)
        ELSE IF n = TemplateName THEN Readable(tpl.val)
        ELSE tools_dir[n]]

\* a variant of Mode in which --dry-run no longer turns the write off
Mode_DryRunWrites(check, dry_run, up_to_date) ==
    IF up_to_date THEN "up to date"
    ELSE IF check THEN "out of date"
    ELSE "write"

\* a variant of Mode in which --dry-run is handled before --check
Mode_DryRunFirst(check, dry_run, up_to_date) ==
    IF up_to_date THEN "up to date"
    ELSE IF dry_run THEN "preview"
    ELSE IF check THEN "out of date"
    ELSE "write"

\* what main does once the new content is generated: the comparison with
\* the existing index, then --check, then --dry-run, then the write
Mode(check, dry_run, up_to_date) ==
    IF up_to_date THEN "up to date"
    ELSE IF check THEN "out of date"
    ELSE IF dry_run THEN "preview"
    ELSE "write"

NoErrors == [warnings |-> <<>>, error |-> ""]

\* an exception leaves main: the traceback on stderr, exit status 1
Raised(exception, warnings, idx) ==
    [outcome |-> exception, status |-> 1, stdout |-> "",
     stderr |-> [warnings |-> warnings, error |-> "traceback"],
     index |-> idx, generated |-> None]

\* main(), with the parsed arguments, what scan_tools(repo_dir) returns or
\* raises, what generate_index_html(tools, template_path) returns or raises
\* (it is not called when the scan raised) and the index file
main(check, dry_run, scan, gen, idx) ==
    IF scan.status # "ok"
    THEN Raised(scan.status, scan.warnings, idx)
    ELSE IF ~gen.ok
    THEN Raised("FileNotFoundError", scan.warnings, idx)
    ELSE LET mode == Mode(check, dry_run, idx.some /\ idx.val = gen.text)
         IN  [outcome |-> "returned",
              status |-> IF mode = "out of date" THEN 1 ELSE 0,
              stdout |-> CASE mode = "up to date" ->
                                IF dry_run \/ check THEN "up to date" ELSE ""
                           [] mode = "out of date" -> ""
                           [] mode = "preview" -> "would be updated"
                           [] OTHER -> "generated",
              stderr |-> [warnings |-> scan.warnings,
                          error |-> IF mode = "out of date" THEN "out of date" ELSE ""],
              index |-> IF mode = "write" THEN Some(gen.text) ELSE idx,
              generated |-> Some(gen.text)]

MainNames == {AHtml, UpperAHtml, BCHtml}

MainStates == {Unreadable, Readable(FullDoc), Readable(NoDescDoc)}

OnePlaceholder  == <<"<", "u", "l", ">">> \o Placeholder
TwoPlaceholders == Placeholder \o <<"|">> \o Placeholder

MainTemplates == {None, Some(OnePlaceholder), Some(TwoPlaceholders)}

StaleIndex == <<"o", "l", "d">>

NoArgs == [check |-> FALSE, dry_run |-> FALSE]

MainIdle ==
    /\ files = <<>>
    /\ template = None
    /\ index = None
    /\ args = NoArgs
    /\ outcome = "none"
    /\ status = 0
    /\ stdout = ""
    /\ stderr = NoErrors
    /\ prevIndex = None
    /\ generated = None

\* one run of the program: glob enumerates the directory in some order
Main ==
    \E order \in Orders(GlobHtml(Directory(files, template, index))) :
      \E scan \in {scan_tools(Directory(files, template, index), None, order)} :
        \E gen \in {generate_index_html(scan.tools, template)} :
          \E check, dry_run \in BOOLEAN :
            \E r \in {main(check, dry_run, scan, gen, index)} :
              /\ args' = [check |-> check, dry_run |-> dry_run]
              /\ outcome' = r.outcome
              /\ status' = r.status
              /\ stdout' = r.stdout
              /\ stderr' = r.stderr
              /\ index' = r.index
              /\ generated' = r.generated
              /\ prevIndex' = index
              /\ UNCHANGED <<files, template, extractVars, scanVars, renderVars, genVars>>

-----------------------------------------------------------------------------
(* The specifications *)

\* runs of main over a directory
Init ==
    /\ files \in Directories(MainNames, MainStates)
    /\ template \in MainTemplates
    /\ index \in {None, Some(StaleIndex)}
    /\ args = NoArgs
    /\ outcome = "none"
    /\ status = 0
    /\ stdout = ""
    /\ stderr = NoErrors
    /\ prevIndex = index
    /\ generated = None
    /\ ExtractIdle /\ ScanIdle /\ RenderIdle /\ GenerateIdle

Next == Main

Spec == Init /\ [][Next]_vars

\* the extractors over generated documents
InitExtract ==
    /\ tag \in Tags
    /\ content = DocumentOf(tag)
    /\ extracted = NotExtracted
    /\ ScanIdle /\ RenderIdle /\ GenerateIdle /\ MainIdle

NextExtract == ExtractTitle \/ ExtractDescription

SpecExtract == InitExtract /\ [][NextExtract]_vars

\* scan_tools over generated directories
InitScan ==
    /\ scanDir \in Directories(ScanNames, FileStates)
    /\ scanOrder = <<>>
    /\ scanResult = NotScanned
    /\ ExtractIdle /\ RenderIdle /\ GenerateIdle /\ MainIdle

NextScan == Scan

SpecScan == InitScan /\ [][NextScan]_vars

\* _render_tools_html over generated lists of tools
InitRender ==
    /\ renderTools \in SeqsUpTo(ToolInfos, MaxTools)
    /\ fragment = None
    /\ ExtractIdle /\ ScanIdle /\ GenerateIdle /\ MainIdle

NextRender == Render

SpecRender == InitRender /\ [][NextRender]_vars

\* generate_index_html over generated templates
InitGenerate ==
    /\ genParts \in TemplateParts
    /\ genTemplate \in {None, Some(Interleave(genParts, Placeholder))}
    /\ genTools \in {<<>>, <<OneTool>>}
    /\ document = NotGenerated
    /\ ExtractIdle /\ ScanIdle /\ RenderIdle /\ MainIdle

NextGenerate == Generate

SpecGenerate == InitGenerate /\ [][NextGenerate]_vars

-----------------------------------------------------------------------------
(* Properties of main, under Spec *)

\* a run has taken place
HasRun == outcome # "none"

\* the index file differed from the content the last run generated, or was absent
WasStale == ~prevIndex.some \/ prevIndex.val # generated.val

\* C1: a run with --check or with --dry-run (or both) leaves the index file
\* as it was before the run: the same content, or still absent, whether the
\* index was stale, up to date or missing, and whether or not the run failed.
C1_CheckAndDryRunWriteNothing ==
    (HasRun /\ (args.check \/ args.dry_run)) => index = prevIndex

\* a --dry-run against a stale index printed the preview and left the index
C1_Witness ==
    /\ args.dry_run /\ ~args.check
    /\ outcome = "returned" /\ stdout = "would be updated"
    /\ prevIndex = Some(StaleIndex) /\ index = Some(StaleIndex)

\* C2: a run that hits no fatal error exits with status 1 exactly when
\* --check is given and the index is absent or differs from the generated
\* content, also when --dry-run is given with it, and then prints no preview;
\* every other such run exits 0; the preview is printed by a --dry-run
\* without --check on a stale index, and only the default mode writes.
C2_ModePrecedence ==
    outcome = "returned" =>
        /\ status \in {0, 1}
        /\ status = 1 <=> (args.check /\ WasStale)
        /\ status = 1 => (stdout = "" /\ stderr.error = "out of date")
        /\ stdout = "would be updated" <=> (args.dry_run /\ ~args.check /\ WasStale)
        /\ stdout = "generated" <=> (~args.dry_run /\ ~args.check /\ WasStale)
        /\ stdout = "up to date" <=> ((args.dry_run \/ args.check) /\ ~WasStale)

\* --check and --dry-run together against a stale index: status 1, no preview
C2_Witness ==
    /\ args.check /\ args.dry_run
    /\ outcome = "returned" /\ status = 1 /\ stdout = ""
    /\ prevIndex = Some(StaleIndex)

\* some file that scan_tools reads has no description tag
SomeToolLacksDescription ==
    \E n \in DOMAIN files \cap {AHtml, UpperAHtml, BCHtml} :
        files[n].readable /\ ~extract_description(files[n].text).some

\* C3: in any mode, if a scanned .html file has no description tag or the
\* template file does not exist, the run ends without success and the index
\* file is unchanged; the index changes only in a run in which both the scan
\* and the generation succeeded, and then to the generated content.
C3_NoPartialIndex ==
    HasRun =>
        /\ (SomeToolLacksDescription \/ ~template.some) =>
               (outcome # "returned" /\ status # 0 /\ index = prevIndex
                /\ stdout = "")
        /\ SomeToolLacksDescription => outcome = "MissingDescriptionError"
        /\ index # prevIndex => (outcome = "returned" /\ index = generated)

\* a default-mode run over a stale index ended in MissingDescriptionError
C3_Witness ==
    /\ ~args.check /\ ~args.dry_run
    /\ outcome = "MissingDescriptionError"
    /\ template.some
    /\ prevIndex = Some(StaleIndex) /\ index = Some(StaleIndex)

\* C4: generation is idempotent: with unchanged tool files and template, the
\* run that follows a default-mode run leaves the index content as that run
\* left it, and with --check it reports "up to date" and exits 0.
C4_Idempotent ==
    [][(outcome = "returned" /\ ~args.check /\ ~args.dry_run) =>
          /\ index' = index
          /\ args'.check => (status' = 0 /\ stdout' = "up to date")]_vars

-----------------------------------------------------------------------------
(* Properties of scan_tools, under SpecScan *)

Scanned == scanResult.status # "idle"

\* the .html files of the directory that the default exclusion keeps
Candidates == DOMAIN scanDir \cap {AHtml, UpperAHtml, BCHtml}

ListedNames(seq) == {seq[i] : i \in 1..Len(seq)}

\* C5: the result of scan_tools is the same sequence for every order in
\* which the platform enumerates the directory, for every set of file names,
\* also when two names differ only in letter case, and it is ordered by
\* case-insensitive file name.
C5_Deterministic ==
    scanResult.status = "ok" =>
        /\ \A o \in Orders(GlobHtml(scanDir)) :
               scan_tools(scanDir, None, o).tools = scanResult.tools
        /\ \A i \in 1..(Len(scanResult.tools) - 1) :
               ~StrLess(LowerStr(scanResult.tools[i + 1].filename),
                        LowerStr(scanResult.tools[i].filename))

\* the description a reader of the file finds: that of the generated documents
StatedDescription(text) ==
    CASE text = FullDoc    -> <<"D">>
      [] text = NoTitleDoc -> <<"E">>
      [] OTHER             -> <<>>

\* C8: every ToolInfo scan_tools returns has a non-empty description: a file
\* from which no non-empty description can be extracted (no tag, or a tag
\* with empty or blank content) yields no ToolInfo and makes the scan fail;
\* the title is the extracted title when the content has one, otherwise the
\* value derived from the file name.
C8_DescriptionNonEmpty ==
    Scanned =>
        /\ \A i \in 1..Len(scanResult.tools) :
               LET t == scanResult.tools[i]
               IN  /\ t.description # <<>>
                   /\ t.title = IF scanDir[t.filename].text \in {FullDoc, NoDescDoc}
                                THEN <<"T", "\n", "t">>
                                ELSE DerivedTitle(t.filename)
        /\ (\E n \in Candidates :
                scanDir[n].readable /\ StatedDescription(scanDir[n].text) = <<>>)
               => scanResult.status # "ok"

\* every readable candidate has a description tag
AllReadableDescribed ==
    \A n \in Candidates : scanDir[n].readable => scanDir[n].text # NoDescDoc

\* C9: a file that cannot be read is skipped and scanning continues: when
\* every readable, non-excluded .html file has a description, scan_tools
\* succeeds and returns exactly one ToolInfo per readable non-excluded file
\* and none for an unreadable one, wherever the unreadable files stand in the
\* enumeration order, and each unreadable file produces one warning.
C9_UnreadableSkipped ==
    (Scanned /\ AllReadableDescribed) =>
        /\ scanResult.status = "ok"
        /\ ListedNames([i \in 1..Len(scanResult.tools) |-> scanResult.tools[i].filename])
               = {n \in Candidates : scanDir[n].readable}
        /\ Len(scanResult.tools) = Cardinality({n \in Candidates : scanDir[n].readable})
        /\ ListedNames(scanResult.warnings) = {n \in Candidates : ~scanDir[n].readable}
        /\ Len(scanResult.warnings) = Cardinality({n \in Candidates : ~scanDir[n].readable})

\* the first enumerated file was unreadable and a later one became a tool
C9_Witness ==
    /\ scanResult.status = "ok"
    /\ Len(scanOrder) >= 2
    /\ scanOrder[1] \in Candidates /\ ~scanDir[scanOrder[1]].readable
    /\ scanOrder[2] \in Candidates /\ scanDir[scanOrder[2]].readable
    /\ Len(scanResult.tools) = 1
    /\ scanResult.warnings = <<scanOrder[1]>>

-----------------------------------------------------------------------------
(* Properties of _render_tools_html, under SpecRender *)

CountChar(s, c) == Cardinality({i \in 1..Len(s) : s[i] = c})

\* the positions at which sub occurs in s, in increasing order
Occurrences(s, sub) ==
    LET P == {i \in 1..Len(s) : MatchAt(s, i, sub)}
    IN  [k \in 1..Cardinality(P) |-> CHOOSE p \in P : Cardinality({q \in P : q < p}) = k - 1]

\* the text of s from position p up to the next character of stops
TextUntil(s, p, stops) ==
    LET E == {j \in p..Len(s) : s[j] \in stops}
    IN  SubSeq(s, p, IF E = {} THEN Len(s) ELSE Min(E) - 1)

\* what a browser reads in escaped text: the five entities decoded
RECURSIVE UnescapeFrom(_, _)
UnescapeFrom(s, i) ==
    IF i > Len(s) THEN <<>>
    ELSE IF MatchAt(s, i, Amp)  THEN <<"&">>  \o UnescapeFrom(s, i + Len(Amp))
    ELSE IF MatchAt(s, i, Lt)   THEN <<"<">>  \o UnescapeFrom(s, i + Len(Lt))
    ELSE IF MatchAt(s, i, Gt)   THEN <<">">>  \o UnescapeFrom(s, i + Len(Gt))
    ELSE IF MatchAt(s, i, Quot) THEN <<"\"">> \o UnescapeFrom(s, i + Len(Quot))
    ELSE IF MatchAt(s, i, Apos) THEN <<"'">>  \o UnescapeFrom(s, i + Len(Apos))
    ELSE <<s[i]>> \o UnescapeFrom(s, i + 1)

Unescape(s) == UnescapeFrom(s, 1)

HrefOpen  == <<"h", "r", "e", "f", "=", "\"">>
TitleSpan == <<"t", "o", "o", "l", "-", "t", "i", "t", "l", "e", "\"", ">">>
ListItem  == <<"<", "l", "i", " ">>

\* C6: the fragment holds one list item per tool, in list order, and the
\* file name, title and description of each tool appear in it only in
\* escaped form: the markup characters of the fragment are those of the
\* list items themselves, every "&" starts an entity, and reading the
\* href, the link text and the paragraph of the k-th item gives back the
\* fields of the k-th tool.
C6_Escaped ==
    fragment.some =>
        LET f == fragment.val
            n == Len(renderTools)
            hrefs  == Occurrences(f, HrefOpen)
            titles == Occurrences(f, TitleSpan)
            paras  == Occurrences(f, ParaOpen)
        IN  /\ Len(Occurrences(f, ListItem)) = n
            /\ CountChar(f, "<") = 8 * n
            /\ CountChar(f, ">") = 8 * n
            /\ CountChar(f, "\"") = 8 * n
            /\ CountChar(f, "'") = 0
            /\ \A i \in 1..Len(f) :
                   f[i] = "&" => \E e \in {Amp, Lt, Gt, Quot, Apos} : MatchAt(f, i, e)
            /\ Len(hrefs) = n /\ Len(titles) = n /\ Len(paras) = n
            /\ \A k \in 1..n :
                   /\ Unescape(TextUntil(f, hrefs[k] + Len(HrefOpen), {"\""}))
                          = renderTools[k].filename
                   /\ Unescape(TextUntil(f, titles[k] + Len(TitleSpan), {"<"}))
                          = renderTools[k].title
                   /\ Unescape(TextUntil(f, paras[k] + Len(ParaOpen), {"<"}))
                          = renderTools[k].description

\* two tools were rendered, one with markup in its description and one with
\* quote characters in its file name
C6_Witness ==
    /\ fragment.some
    /\ Len(renderTools) = 2
    /\ renderTools[1].description = <<"<", "s", ">", "&", "l", "t", ";">>
    /\ renderTools[2].filename = <<"\"", "'", "b">>
    /\ renderTools[2].title = <<"a">>

-----------------------------------------------------------------------------
(* Properties of generate_index_html, under SpecGenerate *)

\* the template with its first placeholder replaced and the others kept
FirstReplaced(parts, by) ==
    IF Len(parts) = 1 THEN parts[1]
    ELSE parts[1] \o by \o Interleave(Tail(parts), Placeholder)

\* C7 (as stated): only the first occurrence of the placeholder is replaced
\* by the fragment: of n >= 1 occurrences the other n - 1 are left as they
\* were; a template without a placeholder is returned unchanged.
C7_FirstOccurrenceOnly ==
    document.status = "ok" =>
        document.text = FirstReplaced(genParts, _render_tools_html(genTools))

\* C7 (amended): every occurrence of the placeholder is replaced by the
\* fragment: for a template with n >= 1 occurrences the result holds the
\* fragment n times, in the place of each placeholder, and the text around
\* them unchanged; a template without a placeholder is returned unchanged;
\* the generation fails exactly when the template file does not exist.
C7_EveryOccurrence ==
    document.status # "idle" =>
        /\ document.status = "ok" <=> genTemplate.some
        /\ document.status = "ok" =>
               document.text = Interleave(genParts, _render_tools_html(genTools))

\* a template with two placeholders was filled with the item of one tool
C7_Witness ==
    /\ document.status = "ok"
    /\ Len(genParts) = 3
    /\ genTools = <<OneTool>>
    /\ Len(Occurrences(document.text, ListItem)) = 2

-----------------------------------------------------------------------------
(* Properties of extract_description, under SpecExtract *)

\* C10: for a well-formed meta description tag in the supported attribute
\* order, in single or in double quotes, extract_description returns the
\* whole value of the content attribute, trimmed, also when the value holds
\* the other quote character; only the first matching tag counts.
C10_WholeValue ==
    (/\ extracted.descDone
     /\ tag.shape \in {"plain", "upper"}
     /\ \A i \in 1..Len(tag.value) : tag.value[i] # tag.quote)
        => extracted.description = Some(Strip(tag.value))

=============================================================================
